---- MODULE Spec2Model ----
(***************************************************************************)
(* Moltbook network analysis: the comment network (commenter -> post       *)
(* author) built by rigorous_analysis.py, network_stats.py and             *)
(* degree_distribution.py, and the statistics computed over it.            *)
(*                                                                         *)
(* Spec          load_data and the three graph builders, one comment per   *)
(*               step of the builder's loop.                               *)
(* SpecStats     the statistics functions applied to an adjacency, in any  *)
(*               order and repeatedly: compute_dyadic_reciprocity,         *)
(*               compute_reciprocity, compute_degree_stats, one resample   *)
(*               of bootstrap_reciprocity and the out-degree Counter of    *)
(*               rigorous_analysis.main.  The adjacency is a defaultdict:  *)
(*               a subscript with a missing key would insert it.           *)
(* SpecAnalysis  rigorous_analysis.main from the built adjacency on:       *)
(*               dyadic reciprocity, bootstrap_reciprocity one resample    *)
(*               per step, the power-law fit and the summary.              *)
(* SpecSeed      __main__ seeds the random module once; the process calls  *)
(*               bootstrap_reciprocity more than once.                     *)
(* SpecFit       estimate_alpha_with_kmin_search, one candidate cutoff per *)
(*               step, over degree vectors around the sample threshold.    *)
(*               A Kolmogorov-Smirnov statistic is kept as an ordered      *)
(*               level; its float value is not computed.                   *)
(* SpecGini      compute_gini and the inline Gini of run_exhaustive.main   *)
(*               over degree vectors with zeros.                           *)
(*                                                                         *)
(* A quotient of two integers is the fraction <<num, den>> in lowest       *)
(* terms.  The random module is a stream of draws fixed by the seed: a     *)
(* draw not made before is any value, rng_stream records the draws made    *)
(* since random.seed.                                                      *)
(*                                                                         *)
(* JSON records are modelled as TLA+ records.  An author object is a       *)
(* function whose domain is {"name"} or empty: the empty one stands for a  *)
(* missing, null or empty "author" and for an author without a "name".     *)
(* A comment carries the post id that `c.get("_post_id") or                *)
(* c.get("post_id")` resolves to; 0 is an id no post has.  Post ids are    *)
(* unique within a posts file.  Names are strings.                         *)
(***************************************************************************)
EXTENDS Integers, Sequences, FiniteSets, TLC

VARIABLES
    script,        \* which program runs
    filter_spam,   \* load_data's parameter (rigorous_analysis only)
    raw_posts,     \* the records of posts.jsonl
    raw_comments,  \* the records of comments.jsonl
    posts,         \* load_data's first result
    comments,      \* load_data's second result
    post_authors,  \* builder: post id -> author name
    i,             \* builder: number of comments consumed
    adjacency,     \* src -> (tgt -> weight)
    edges,         \* network_stats: the accepted (commenter, post_author) list
    out_degree,    \* degree_distribution: Counter
    in_degree,     \* degree_distribution: Counter
    stats,         \* network_stats: compute_degree_stats' result
    stats_locals,  \* compute_degree_stats' out_degrees, in_degrees at its return
    recip,         \* compute_dyadic_reciprocity's result
    out_degrees,   \* rigorous_analysis.main: the out-degree Counter
    returned,      \* the statistics functions that have returned
    n_samples,     \* bootstrap_reciprocity's parameter
    boot_edges,    \* bootstrap_reciprocity: edges
    reciprocities, \* bootstrap_reciprocity: reciprocities
    ci,            \* (ci_low, ci_high)
    results,       \* what the calls of bootstrap_reciprocity returned, in order
    fit,           \* estimate_alpha_with_kmin_search's result
    rng_stream,    \* the draws of the random module since random.seed
    sample_adj,    \* bootstrap_reciprocity: the adjacency of the last resample
    fit_k,         \* estimate_alpha_with_kmin_search: candidates consumed
    best,          \* estimate_alpha_with_kmin_search: best_alpha, best_kmin, best_ks
    tried,         \* what the loop did with each candidate consumed
    gini,          \* the Gini coefficients computed from out_degrees
    edge_recip,    \* network_stats.compute_reciprocity's result
    pc

vars == <<script, filter_spam, raw_posts, raw_comments, posts, comments,
          post_authors, i, adjacency, edges, out_degree, in_degree, stats,
          stats_locals, recip, out_degrees, returned, n_samples, boot_edges,
          reciprocities, ci, results, fit, rng_stream, sample_adj, fit_k,
          best, tried, gini, edge_recip, pc>>

\* the files and the builder's own state
buildVars == <<script, filter_spam, raw_posts, raw_comments, posts, comments,
               post_authors, i, edges, out_degree, in_degree>>

\* the results of the statistics
statVars == <<recip, out_degrees, returned>>

\* bootstrap_reciprocity, the fit and the random module
bootVars == <<n_samples, boot_edges, reciprocities, ci, results, fit, rng_stream>>

\* the loop of estimate_alpha_with_kmin_search
fitVars == <<fit_k, best, tried>>

----------------------------------------------------------------------------
(* Bounds and input domains                                                *)

MaxComments == 2

EmptyMap == [k \in {} |-> 0]

\* rigorous_analysis.py: SPAM_ACCOUNTS
SPAM_ACCOUNTS ==
    {"Stromfee", "Manus-Independent", "FiverrClawOfficial", "botcrong", "Editor-in-Chief"}

NoAuthor == [k \in {} |-> ""]

Author(n) == [name |-> n]

AuthorInputs == {NoAuthor, Author("A"), Author("B"), Author(""), Author("Stromfee")}

\* posts.jsonl: a post by A, by B, by a spam account and by an empty name; or
\* posts by A and B, one without an author, in another order
PostInputs ==
    { << [id |-> 1, author |-> Author("A")],
         [id |-> 2, author |-> Author("B")],
         [id |-> 3, author |-> Author("Stromfee")],
         [id |-> 4, author |-> Author("")] >>,
      << [id |-> 2, author |-> Author("A")],
         [id |-> 1, author |-> NoAuthor],
         [id |-> 4, author |-> Author("B")] >> }

PostIdInputs == 0..4

CommentInputs == [author : AuthorInputs, post_id : PostIdInputs]

SeqsUpTo(S, n) == UNION {[1..k -> S] : k \in 0..n}

MaxEdges == 3

MaxSamples == 2

MaxRankSamples == 200

MaxSeedEdges == 2

MaxCalls == 2

StatNames == {"A", "B", "C"}

Scripts == {"rigorous_analysis", "network_stats", "degree_distribution"}

----------------------------------------------------------------------------
(* Dictionaries                                                            *)

\* dict.get("name", default) on an author object
GetName(author_obj, default) ==
    IF "name" \in DOMAIN author_obj THEN author_obj.name ELSE default

\* dict.get(key, default)
Get(d, key, default) == IF key \in DOMAIN d THEN d[key] ELSE default

\* d[key] += 1 on a defaultdict(int) or a Counter
Increment(d, key) ==
    IF key \in DOMAIN d THEN [d EXCEPT ![key] = @ + 1] ELSE d @@ (key :> 1)

\* adjacency[src][tgt] += 1 on a defaultdict(lambda: defaultdict(int))
IncrementEdge(adj, src, tgt) ==
    IF src \in DOMAIN adj
    THEN [adj EXCEPT ![src] = Increment(@, tgt)]
    ELSE adj @@ (src :> (tgt :> 1))

RECURSIVE SumOver(_, _)
SumOver(f, S) ==
    IF S = {} THEN 0
    ELSE LET x == CHOOSE y \in S : TRUE IN f[x] + SumOver(f, S \ {x})

\* sum(d.values())
SumValues(d) == SumOver(d, DOMAIN d)

----------------------------------------------------------------------------
(* load_data                                                               *)

RECURSIVE FilterSeq(_, _)
FilterSeq(s, drop) ==
    IF s = <<>> THEN <<>>
    ELSE IF GetName(Head(s).author, "") \in drop
         THEN FilterSeq(Tail(s), drop)
         ELSE <<Head(s)>> \o FilterSeq(Tail(s), drop)

load_data_keeps_all(records, filter) == records

\* rigorous_analysis.load_data: the records whose author is not a spam account
load_data(records, filter) ==
    IF filter THEN FilterSeq(records, SPAM_ACCOUNTS) ELSE records

----------------------------------------------------------------------------
(* The builders                                                            *)

\* post_authors[p.get("id")] = author_obj.get("name", "unknown"), in file order
RECURSIVE PostAuthors(_)
PostAuthors(ps) ==
    IF ps = <<>> THEN EmptyMap
    ELSE LET n == Len(ps)
             rest == PostAuthors(SubSeq(ps, 1, n - 1))
             p == ps[n]
             name == GetName(p.author, "unknown")
         IN  IF p.id \in DOMAIN rest
             THEN [rest EXCEPT ![p.id] = name]
             ELSE rest @@ (p.id :> name)

Commenter(c) ==
    IF c.author # NoAuthor THEN GetName(c.author, "unknown") ELSE "unknown"

PostAuthor(pa, c) == Get(pa, c.post_id, "unknown")

AcceptsEmptyName(commenter, post_author) ==
    /\ commenter # "unknown"
    /\ post_author \notin {"unknown", ""}
    /\ commenter # post_author

\* rigorous_analysis.build_network, line 61
Accepts(commenter, post_author) ==
    /\ commenter \notin {"unknown", ""}
    /\ post_author \notin {"unknown", ""}
    /\ commenter # post_author

\* network_stats.build_comment_network line 62, degree_distribution.build_network line 44
AcceptsVariant(commenter, post_author) ==
    /\ commenter # "unknown"
    /\ post_author # "unknown"
    /\ commenter # post_author

AddEdgeDropSiblings(adj, src, tgt) ==
    IF src \in DOMAIN adj /\ tgt \in DOMAIN adj[src]
    THEN [adj EXCEPT ![src][tgt] = @ + 1]
    ELSE [s \in DOMAIN adj \cup {src} |-> IF s = src THEN (tgt :> 1) ELSE adj[s]]

\* adjacency[commenter][post_author] += 1
AddEdge(adj, src, tgt) == IncrementEdge(adj, src, tgt)

\* one iteration of rigorous_analysis.build_network's loop over the comments
build_network_step(adj, pa, c) ==
    IF Accepts(Commenter(c), PostAuthor(pa, c))
    THEN AddEdge(adj, Commenter(c), PostAuthor(pa, c))
    ELSE adj

RECURSIVE BuildFrom(_, _, _)
BuildFrom(adj, pa, cs) ==
    IF cs = <<>> THEN adj
    ELSE BuildFrom(build_network_step(adj, pa, Head(cs)), pa, Tail(cs))

\* rigorous_analysis.build_network
build_network(ps, cs) == BuildFrom(EmptyMap, PostAuthors(ps), cs)

\* one iteration of network_stats.build_comment_network's loop
build_comment_network_step(adj, pa, c) ==
    IF AcceptsVariant(Commenter(c), PostAuthor(pa, c))
    THEN IncrementEdge(adj, Commenter(c), PostAuthor(pa, c))
    ELSE adj

build_comment_network_edges(es, pa, c) ==
    IF AcceptsVariant(Commenter(c), PostAuthor(pa, c))
    THEN Append(es, <<Commenter(c), PostAuthor(pa, c)>>)
    ELSE es

\* one iteration of degree_distribution.build_network's loop
degree_out_step(out, pa, c) ==
    IF AcceptsVariant(Commenter(c), PostAuthor(pa, c))
    THEN Increment(out, Commenter(c))
    ELSE out

degree_in_step(in, pa, c) ==
    IF AcceptsVariant(Commenter(c), PostAuthor(pa, c))
    THEN Increment(in, PostAuthor(pa, c))
    ELSE in

----------------------------------------------------------------------------
(* Numbers                                                                 *)

RECURSIVE GCD(_, _)
GCD(a, b) == IF b = 0 THEN a ELSE GCD(b, a % b)

\* the quotient a / b (b > 0) as the fraction <<numerator, denominator>> in
\* lowest terms: two quotients are equal as Python floats exactly when these are
Ratio(a, b) == LET g == GCD(a, b) IN <<a \div g, b \div g>>

Zero == <<0, 1>>

Leq(x, y) == x[1] * y[2] <= y[1] * x[2]

Less(x, y) == x[1] * y[2] < y[1] * x[2]

\* the values of a dict, ascending: sorted(d.values())
RECURSIVE SortedValues(_)
SortedValues(d) ==
    IF DOMAIN d = {} THEN <<>>
    ELSE LET k == CHOOSE x \in DOMAIN d : \A y \in DOMAIN d : d[x] <= d[y]
         IN  <<d[k]>> \o SortedValues([x \in DOMAIN d \ {k} |-> d[x]])

\* statistics.median: the middle value, or the mean of the two middle values
Median(d) ==
    LET v == SortedValues(d)
        n == Len(v)
    IN  IF n % 2 = 1 THEN Ratio(v[n \div 2 + 1], 1)
        ELSE Ratio(v[n \div 2] + v[n \div 2 + 1], 2)

\* sorted(vals)[len(vals) // 2], degree_distribution.main and generate_latex_table
ElementAtHalf(d) == SortedValues(d)[(Len(SortedValues(d)) \div 2) + 1]

\* degree_distribution.main, lines 102-105: the median of out_degree.values()
main_median(degree) == ElementAtHalf(degree)

\* generate_figures.generate_latex_table, lines 54-65: median_out
latex_median_out(out_degrees_, in_degrees_) ==
    LET all_nodes == DOMAIN out_degrees_ \cup DOMAIN in_degrees_
        out_vals == [n \in all_nodes |-> Get(out_degrees_, n, 0)]
    IN  IF all_nodes # {} THEN ElementAtHalf(out_vals) ELSE 0

Max(d) == CHOOSE m \in {d[x] : x \in DOMAIN d} : \A x \in DOMAIN d : d[x] <= m

----------------------------------------------------------------------------
(* network_stats.compute_degree_stats                                      *)

OutDegreesByTargetCount(adj) == [s \in DOMAIN adj |-> Cardinality(DOMAIN adj[s])]

\* out_degrees[src] = sum(targets.values())
AdjOutDegrees(adj) == [s \in DOMAIN adj |-> SumValues(adj[s])]

Targets(adj) == UNION {DOMAIN adj[s] : s \in DOMAIN adj}

\* in_degrees[tgt] += weight
AdjInDegrees(adj) ==
    [t \in Targets(adj) |->
        SumOver([s \in DOMAIN adj |-> Get(adj[s], t, 0)], DOMAIN adj)]

\* compute_degree_stats' two defaultdicts when its loop is over
degree_vectors(adj) == [out |-> AdjOutDegrees(adj), in |-> AdjInDegrees(adj)]

\* no statistics yet
NoStats == [num_nodes |-> 0]

compute_degree_stats(adj) ==
    LET out_degrees_ == degree_vectors(adj).out
        in_degrees_ == degree_vectors(adj).in
        all_nodes == DOMAIN out_degrees_ \cup DOMAIN in_degrees_
        out_vals == [n \in all_nodes |-> Get(out_degrees_, n, 0)]
        in_vals == [n \in all_nodes |-> Get(in_degrees_, n, 0)]
        empty == all_nodes = {}
    IN  [num_nodes |-> Cardinality(all_nodes),
         num_edges |-> SumValues(out_vals),
         out_degree_mean |->
             IF empty THEN Zero ELSE Ratio(SumValues(out_vals), Cardinality(all_nodes)),
         out_degree_median |-> IF empty THEN Zero ELSE Median(out_vals),
         out_degree_max |-> IF empty THEN 0 ELSE Max(out_vals),
         in_degree_mean |->
             IF empty THEN Zero ELSE Ratio(SumValues(in_vals), Cardinality(all_nodes)),
         in_degree_median |-> IF empty THEN Zero ELSE Median(in_vals),
         in_degree_max |-> IF empty THEN 0 ELSE Max(in_vals)]

----------------------------------------------------------------------------
(* rigorous_analysis.compute_dyadic_reciprocity                            *)

\* Python's order of the names: str comparison
NameOrder ==
    <<"", "A", "B", "C", "D", "Editor-in-Chief", "FiverrClawOfficial",
      "Manus-Independent", "Stromfee", "botcrong", "unknown">>

Rank(n) == CHOOSE k \in 1..Len(NameOrder) : NameOrder[k] = n

UnsortedPair(a, b) == <<a, b>>

\* tuple(sorted([src, tgt]))
SortedPair(a, b) == IF Rank(a) <= Rank(b) THEN <<a, b>> ELSE <<b, a>>

\* len(edges) of bootstrap_reciprocity: the sum of all weights
TotalWeight(adj) == SumOver([s \in DOMAIN adj |-> SumValues(adj[s])], DOMAIN adj)

\* the (src, tgt) a double loop over adjacency.items() and targets visits
Entries(adj) == {e \in (DOMAIN adj) \X Targets(adj) : e[2] \in DOMAIN adj[e[1]]}

\* pairs: the set of tuple(sorted([src, tgt]))
ConnectedPairs(adj) == {SortedPair(e[1], e[2]) : e \in Entries(adj)}

MutualPairs(adj) ==
    {pr \in ConnectedPairs(adj) :
        /\ pr[1] \in DOMAIN adj
        /\ pr[2] \in DOMAIN adj[pr[1]]
        /\ pr[2] \in DOMAIN adj
        /\ pr[1] \in DOMAIN adj[pr[2]]}

\* (mutual / len(pairs) if pairs else 0, len(pairs), mutual)
compute_dyadic_reciprocity(adj) ==
    LET pairs == ConnectedPairs(adj)
        mutual == Cardinality(MutualPairs(adj))
    IN  <<IF pairs # {} THEN Ratio(mutual, Cardinality(pairs)) ELSE Zero,
          Cardinality(pairs), mutual>>

\* adjacency[k] on the defaultdict: a missing key is inserted with an empty
\* defaultdict(int) as its value
GetItem(adj, k) == IF k \in DOMAIN adj THEN adj ELSE [x \in DOMAIN adj \cup {k} |-> IF x = k THEN EmptyMap ELSE adj[x]]

MutualTestUnguarded(adj, a, b) == GetItem(GetItem(adj, a), b)

\* the adjacency after the test of line 81, evaluated left to right:
\* a in adjacency and b in adjacency[a] and b in adjacency and a in adjacency[b]
MutualTest(adj, a, b) ==
    IF a \notin DOMAIN adj THEN adj
    ELSE LET adj1 == GetItem(adj, a) IN
         IF b \notin DOMAIN adj1[a] THEN adj1
         ELSE IF b \notin DOMAIN adj1 THEN adj1
              ELSE GetItem(adj1, b)

\* the adjacency after the counting loop of lines 80-82 over the pairs
RECURSIVE AfterMutualTests(_, _)
AfterMutualTests(adj, pairs) ==
    IF pairs = {} THEN adj
    ELSE LET pr == CHOOSE x \in pairs : TRUE
         IN  AfterMutualTests(MutualTest(adj, pr[1], pr[2]), pairs \ {pr})

\* the adjacency compute_dyadic_reciprocity leaves behind: its first loop
\* only iterates, its second makes the tests above
dyadic_reciprocity_adjacency(adj) == AfterMutualTests(adj, ConnectedPairs(adj))

\* rigorous_analysis.main: out_degrees[src] = sum(targets.values())
main_out_degrees(adj) == AdjOutDegrees(adj)

----------------------------------------------------------------------------
(* network_stats.compute_reciprocity                                       *)

\* adjacency.get(tgt, {}): the value or the default, the dict is not changed
GetOrEmpty(adj, k) == IF k \in DOMAIN adj THEN adj[k] ELSE EmptyMap

ReciprocatedEntriesOncePerPair(adj) ==
    {e \in Entries(adj) :
        e[1] \in DOMAIN GetOrEmpty(adj, e[2]) /\ Rank(e[1]) < Rank(e[2])}

\* the entries (src, tgt) with src in adjacency.get(tgt, {})
ReciprocatedEntries(adj) ==
    {e \in Entries(adj) : e[1] \in DOMAIN GetOrEmpty(adj, e[2])}

\* reciprocated / total if total > 0 else 0
compute_reciprocity(adj) ==
    LET total == Cardinality(Entries(adj))
        reciprocated == Cardinality(ReciprocatedEntries(adj))
    IN  IF total > 0 THEN Ratio(reciprocated, total) ELSE Zero

----------------------------------------------------------------------------
(* rigorous_analysis.bootstrap_reciprocity                                 *)

\* the entries in the order of the names
RECURSIVE EntryList(_)
EntryList(es) ==
    IF es = {} THEN <<>>
    ELSE LET e == CHOOSE x \in es : \A y \in es :
                      \/ Rank(x[1]) < Rank(y[1])
                      \/ (x[1] = y[1] /\ Rank(x[2]) <= Rank(y[2]))
         IN  <<e>> \o EntryList(es \ {e})

RECURSIVE Expand(_, _)
Expand(adj, es) ==
    IF es = <<>> THEN <<>>
    ELSE [k \in 1..adj[Head(es)[1]][Head(es)[2]] |-> Head(es)] \o Expand(adj, Tail(es))

\* edges: one (src, tgt) per unit of weight, lines 89-93
EdgeList(adj) == Expand(adj, EntryList(Entries(adj)))

\* sample_adj[src][tgt] += 1 for src, tgt in sample_edges
RECURSIVE SampleAdjacency(_, _)
SampleAdjacency(adj, es) ==
    IF es = <<>> THEN adj
    ELSE SampleAdjacency(IncrementEdge(adj, Head(es)[1], Head(es)[2]), Tail(es))

ChoicesOneShort(es, draws) == [k \in 1..(Len(draws) - 1) |-> es[draws[k]]]

\* random.choices(edges, k=n): the draws are the chosen positions of edges
Choices(es, draws) == [k \in 1..Len(draws) |-> es[draws[k]]]

\* one iteration of the resampling loop, lines 100-105
resample_reciprocity(es, draws) ==
    compute_dyadic_reciprocity(SampleAdjacency(EmptyMap, Choices(es, draws)))[1]

RECURSIVE Insert(_, _)
Insert(x, sorted) ==
    IF sorted = <<>> THEN <<x>>
    ELSE IF Leq(x, Head(sorted)) THEN <<x>> \o sorted
         ELSE <<Head(sorted)>> \o Insert(x, Tail(sorted))

RECURSIVE InsertionSort(_)
InsertionSort(xs) ==
    IF xs = <<>> THEN <<>> ELSE Insert(Head(xs), InsertionSort(Tail(xs)))

Unsorted(xs) == xs

\* reciprocities.sort()
Sort(xs) == InsertionSort(xs)

\* int(x) of the float num/den: truncation toward zero
Trunc(num, den) == IF num >= 0 THEN num \div den ELSE -((-num) \div den)

\* int(0.025 * n_samples)
RankLow(n) == Trunc(25 * n, 1000)

\* int(0.975 * n_samples)
RankHigh(n) == Trunc(975 * n, 1000)

\* xs[k] of a Python list raises IndexError outside -len(xs) .. len(xs)-1
IndexOk(xs, k) == -Len(xs) <= k /\ k < Len(xs)

Index(xs, k) == IF k >= 0 THEN xs[k + 1] ELSE xs[Len(xs) + k + 1]

\* the draws of resample j (from 0) of a call that starts after `start` draws
DrawsOf(stream, start, n, j) == SubSeq(stream, start + j * n + 1, start + (j + 1) * n)

\* bootstrap_reciprocity(adjacency, n_samples) when the random module has
\* made `start` draws since the seed and its stream is `stream`
bootstrap_reciprocity(adj, n, stream, start) ==
    LET es == EdgeList(adj)
        rs == Sort([j \in 1..n |-> resample_reciprocity(es, DrawsOf(stream, start, Len(es), j - 1))])
    IN  <<Index(rs, RankLow(n)), Index(rs, RankHigh(n))>>

----------------------------------------------------------------------------
(* rigorous_analysis.estimate_alpha_with_kmin_search                       *)

\* for k_min in [1, 2, 3, 5, 10, 20]
Candidates == <<1, 2, 3, 5, 10, 20>>

\* if len(values) < 50: continue
MinSample == 50

\* the number of degrees >= k_min
TailSize(degrees, k_min) == Cardinality({x \in DOMAIN degrees : degrees[x] >= k_min})

\* sum_log > 0: each term log(k / (k_min - 0.5)) has k >= k_min >= 1, so
\* k / (k_min - 0.5) > 1 and the sum of one or more terms is positive
SumLogPositive(degrees, k_min) == TailSize(degrees, k_min) >= 1

\* the candidates the loop does not skip
FittedCandidates(degrees) ==
    {j \in 1..Len(Candidates) :
        /\ ~ (TailSize(degrees, Candidates[j]) < MinSample)
        /\ SumLogPositive(degrees, Candidates[j])}

NoFit == [alpha |-> "None", k_min |-> "None", ks |-> "inf"]

\* (best_alpha, best_kmin, best_ks): None, None, inf when every candidate is
\* skipped; otherwise numbers (their values are not modelled here)
estimate_alpha_with_kmin_search(degrees) ==
    IF FittedCandidates(degrees) = {} THEN NoFit
    ELSE [alpha |-> "float", k_min |-> "int", ks |-> "float"]

\* The Kolmogorov-Smirnov statistic is a float in [0, 1].  The model keeps
\* its order only: a level in 0..MaxKs, MaxKs standing for 1.0, and KsInf for
\* float('inf').
MaxKs == 2

KsLevels == 0..MaxKs

KsInf == MaxKs + 1

\* every value >= k_min equals k_min
AllAtCutoff(degrees, k_min) ==
    \A x \in DOMAIN degrees : degrees[x] >= k_min => degrees[x] = k_min

\* power_law_ks_test(degrees, alpha, k_min): 1.0 without values; 1.0 when
\* every value is k_min (the theoretical CDF 1 - 1.0 ** (1 - alpha) is 0 and
\* the empirical CDF reaches 1); otherwise some statistic
KsOutcomes(degrees, k_min) ==
    IF TailSize(degrees, k_min) = 0 \/ AllAtCutoff(degrees, k_min)
    THEN {MaxKs}
    ELSE KsLevels

\* best_ks = inf, best_alpha = None, best_kmin = None; a fitted alpha is
\* named by the cutoff it was estimated at, 0 is None
NoBest == [alpha |-> 0, k_min |-> 0, ks |-> KsInf]

\* what `tried` records for a candidate that hit a `continue`
Skipped == -1

SkippedOnlyWhenDegenerate(degrees, k_min) == ~ SumLogPositive(degrees, k_min)

\* the candidate is skipped by one of the two `continue` tests
IsSkipped(degrees, k_min) ==
    \/ TailSize(degrees, k_min) < MinSample
    \/ ~ SumLogPositive(degrees, k_min)

UpdateBestOnTie(b, k_min, ks) ==
    IF ks <= b.ks THEN [alpha |-> k_min, k_min |-> k_min, ks |-> ks] ELSE b

\* if ks < best_ks: best_ks, best_alpha, best_kmin = ks, alpha, k_min
UpdateBest(b, k_min, ks) ==
    IF ks < b.ks THEN [alpha |-> k_min, k_min |-> k_min, ks |-> ks] ELSE b

\* the returned tuple as seen by main: None / inf or numbers
FitOf(b) ==
    IF b.k_min = 0 THEN NoFit ELSE [alpha |-> "float", k_min |-> "int", ks |-> "float"]

\* degree_distribution.estimate_power_law_exponent: the alpha of its result
\* is None without values or when sum_log == 0, which no value >= k_min >= 1
\* produces (every term log(k / (k_min - 0.5)) is positive)
estimate_power_law_exponent(degrees, k_min) ==
    IF TailSize(degrees, k_min) = 0 THEN "None"
    ELSE IF ~ SumLogPositive(degrees, k_min) THEN "None"
    ELSE "float"

----------------------------------------------------------------------------
(* degree_distribution.compute_gini                                        *)

RECURSIVE RankWeightedSumShifted(_, _, _)
RankWeightedSumShifted(values, k, n) ==
    IF k > Len(values) THEN 0
    ELSE (2 * k - n) * values[k] + RankWeightedSumShifted(values, k + 1, n)

\* cumsum += (2 * (i + 1) - n - 1) * v, over the sorted values
RECURSIVE RankWeightedSum(_, _, _)
RankWeightedSum(values, k, n) ==
    IF k > Len(values) THEN 0
    ELSE (2 * k - n - 1) * values[k] + RankWeightedSum(values, k + 1, n)

RECURSIVE SeqSum(_)
SeqSum(xs) == IF xs = <<>> THEN 0 ELSE Head(xs) + SeqSum(Tail(xs))

\* the two coefficients before any is computed
NoGini == [compute_gini |-> Zero, run_exhaustive |-> Zero]

compute_gini_over_n_plus_one(degrees) ==
    LET values == SortedValues(degrees)
        n == Len(values)
    IN  IF n = 0 THEN Zero
        ELSE IF SeqSum(values) > 0
             THEN Ratio(RankWeightedSum(values, 1, n), (n + 1) * SeqSum(values))
             ELSE Zero

compute_gini(degrees) ==
    LET values == SortedValues(degrees)
        n == Len(values)
    IN  IF n = 0 THEN Zero
        ELSE IF SeqSum(values) > 0
             THEN Ratio(RankWeightedSum(values, 1, n), n * SeqSum(values))
             ELSE Zero

\* run_exhaustive.main, lines 127-132: cumsum = sum((i + 1) * v), then
\* 2 * cumsum / (n * sum) - (n + 1) / n, here in exact arithmetic (the float
\* subtraction of the code rounds once more than compute_gini's division)
RECURSIVE RankSum(_, _)
RankSum(values, k) ==
    IF k > Len(values) THEN 0 ELSE k * values[k] + RankSum(values, k + 1)

run_exhaustive_gini(out_vals, before) ==
    LET sorted_out == SortedValues(out_vals)
        n == Len(sorted_out)
    IN  IF n > 0
        THEN IF SeqSum(sorted_out) > 0
             THEN Ratio(2 * RankSum(sorted_out, 1) - (n + 1) * SeqSum(sorted_out),
                        n * SeqSum(sorted_out))
             ELSE Zero
        ELSE before

----------------------------------------------------------------------------
(* Spec: load_data, then a builder                                         *)

Init ==
    /\ script \in Scripts
    /\ filter_spam \in (IF script = "rigorous_analysis" THEN BOOLEAN ELSE {FALSE})
    /\ raw_posts \in PostInputs
    /\ raw_comments \in SeqsUpTo(CommentInputs, MaxComments)
    /\ posts = <<>>
    /\ comments = <<>>
    /\ post_authors = EmptyMap
    /\ i = 0
    /\ adjacency = EmptyMap
    /\ edges = <<>>
    /\ out_degree = EmptyMap
    /\ in_degree = EmptyMap
    /\ stats = NoStats
    /\ stats_locals = [out |-> EmptyMap, in |-> EmptyMap]
    /\ recip = <<Zero, 0, 0>>
    /\ out_degrees = EmptyMap
    /\ returned = {}
    /\ n_samples = 0
    /\ boot_edges = <<>>
    /\ reciprocities = <<>>
    /\ ci = <<Zero, Zero>>
    /\ results = <<>>
    /\ fit = NoFit
    /\ rng_stream = <<>>
    /\ sample_adj = EmptyMap
    /\ fit_k = 0
    /\ best = NoBest
    /\ tried = <<>>
    /\ gini = NoGini
    /\ edge_recip = Zero
    /\ pc = "load"

\* load_data(): rigorous_analysis filters, the other two scripts load everything
LoadData ==
    /\ pc = "load"
    /\ posts' = load_data(raw_posts, filter_spam)
    /\ comments' = load_data(raw_comments, filter_spam)
    /\ pc' = "map"
    /\ UNCHANGED <<script, filter_spam, raw_posts, raw_comments, post_authors, i,
                   adjacency, edges, out_degree, in_degree, stats, stats_locals>>
    /\ UNCHANGED <<statVars, bootVars>>
    /\ UNCHANGED <<sample_adj, fitVars, gini, edge_recip>>

\* the builder's first loop: post_authors; and its empty accumulators
BuildStart ==
    /\ pc = "map"
    /\ post_authors' = PostAuthors(posts)
    /\ i' = 0
    /\ adjacency' = EmptyMap
    /\ edges' = <<>>
    /\ out_degree' = EmptyMap
    /\ in_degree' = EmptyMap
    /\ pc' = "build"
    /\ UNCHANGED <<script, filter_spam, raw_posts, raw_comments, posts, comments,
                   stats, stats_locals>>
    /\ UNCHANGED <<statVars, bootVars>>
    /\ UNCHANGED <<sample_adj, fitVars, gini, edge_recip>>

\* one iteration of `for c in comments`
BuildStep ==
    /\ pc = "build"
    /\ i < Len(comments)
    /\ LET c == comments[i + 1] IN
         CASE script = "rigorous_analysis" ->
                /\ adjacency' = build_network_step(adjacency, post_authors, c)
                /\ UNCHANGED <<edges, out_degree, in_degree>>
           [] script = "network_stats" ->
                /\ adjacency' = build_comment_network_step(adjacency, post_authors, c)
                /\ edges' = build_comment_network_edges(edges, post_authors, c)
                /\ UNCHANGED <<out_degree, in_degree>>
           [] script = "degree_distribution" ->
                /\ out_degree' = degree_out_step(out_degree, post_authors, c)
                /\ in_degree' = degree_in_step(in_degree, post_authors, c)
                /\ UNCHANGED <<adjacency, edges>>
    /\ i' = i + 1
    /\ UNCHANGED <<script, filter_spam, raw_posts, raw_comments, posts, comments,
                   post_authors, stats, stats_locals, pc>>
    /\ UNCHANGED <<statVars, bootVars>>
    /\ UNCHANGED <<sample_adj, fitVars, gini, edge_recip>>

\* the loop is over: the builder returns
BuildReturn ==
    /\ pc = "build"
    /\ i = Len(comments)
    /\ pc' = "built"
    /\ UNCHANGED <<buildVars, adjacency, stats, stats_locals>>
    /\ UNCHANGED <<statVars, bootVars>>
    /\ UNCHANGED <<sample_adj, fitVars, gini, edge_recip>>

\* network_stats.main: degree_stats = compute_degree_stats(adjacency)
DegreeStats ==
    /\ pc = "built"
    /\ script = "network_stats"
    /\ stats' = compute_degree_stats(adjacency)
    /\ stats_locals' = degree_vectors(adjacency)
    /\ pc' = "stats"
    /\ UNCHANGED <<buildVars, adjacency>>
    /\ UNCHANGED <<statVars, bootVars>>
    /\ UNCHANGED <<sample_adj, fitVars, gini, edge_recip>>

Next == LoadData \/ BuildStart \/ BuildStep \/ BuildReturn \/ DegreeStats

Spec == Init /\ [][Next]_vars

----------------------------------------------------------------------------
(* Properties of the builders                                              *)

Weight(adj, s, t) ==
    IF s \in DOMAIN adj /\ t \in DOMAIN adj[s] THEN adj[s][t] ELSE 0

TotalOut(adj) == SumValues(AdjOutDegrees(adj))

TotalIn(adj) == SumValues(AdjInDegrees(adj))

\* an identity is resolved when it is neither empty nor the unknown sentinel
IsResolved(n) == n # "" /\ n # "unknown"

InputNames == {"A", "B", "", "unknown"} \cup SPAM_ACCOUNTS

\* the comments of cs that are edges between two resolved, distinct identities
ResolvedEdges(ps, cs) ==
    {j \in 1..Len(cs) :
        /\ IsResolved(Commenter(cs[j]))
        /\ IsResolved(PostAuthor(PostAuthors(ps), cs[j]))
        /\ Commenter(cs[j]) # PostAuthor(PostAuthors(ps), cs[j])}

\* C1: after any prefix of the comments, rigorous_analysis.build_network's
\* adjacency has no self-loop, no 'unknown' or empty source or target, and
\* every stored weight is at least 1.
C1_AdjacencyWellFormed ==
    script = "rigorous_analysis" =>
        \A s \in DOMAIN adjacency :
            /\ s \notin {"unknown", ""}
            /\ \A t \in DOMAIN adjacency[s] :
                   /\ t # s
                   /\ t \notin {"unknown", ""}
                   /\ adjacency[s][t] >= 1

C1_Witness ==
    /\ script = "rigorous_analysis"
    /\ pc = "build"
    /\ i = 2
    /\ DOMAIN adjacency # {}
    /\ \E j \in 1..i : Commenter(comments[j]) = ""

\* C2: once a builder has consumed all comments, the sum of the out-degrees
\* equals the sum of the in-degrees equals the number of comments that are
\* edges between two resolved, distinct identities.
C2_WeightConserved ==
    LET accepted == Cardinality(ResolvedEdges(posts, comments)) IN
    /\ (script = "rigorous_analysis" /\ pc = "built") =>
           /\ TotalOut(adjacency) = accepted
           /\ TotalIn(adjacency) = accepted
    /\ (script = "network_stats" /\ pc = "stats") =>
           /\ stats.num_edges = accepted
           /\ SumValues(stats_locals.out) = accepted
           /\ SumValues(stats_locals.in) = accepted
           /\ Len(edges) = accepted
    /\ (script = "degree_distribution" /\ pc = "built") =>
           /\ SumValues(out_degree) = accepted
           /\ SumValues(in_degree) = accepted

\* each builder conserves the weight of the comments it accepts by its own test
WeightConservedAsBuilt ==
    LET pa == PostAuthors(posts)
        own == {j \in 1..Len(comments) :
                   AcceptsVariant(Commenter(comments[j]), PostAuthor(pa, comments[j]))}
    IN
    /\ (script = "rigorous_analysis" /\ pc = "built") =>
           /\ TotalOut(adjacency) = Cardinality(ResolvedEdges(posts, comments))
           /\ TotalIn(adjacency) = Cardinality(ResolvedEdges(posts, comments))
    /\ (script = "network_stats" /\ pc = "stats") =>
           /\ stats.num_edges = Cardinality(own)
           /\ SumValues(stats_locals.out) = Cardinality(own)
           /\ SumValues(stats_locals.in) = Cardinality(own)
           /\ Len(edges) = Cardinality(own)
    /\ (script = "degree_distribution" /\ pc = "built") =>
           /\ SumValues(out_degree) = Cardinality(own)
           /\ SumValues(in_degree) = Cardinality(own)

Permuted(cs, perm) == [j \in 1..Len(cs) |-> cs[perm[j]]]

\* C3: for fixed posts, every permutation of the comments makes
\* rigorous_analysis.build_network return the same adjacency.
C3_OrderIndependent ==
    (script = "rigorous_analysis" /\ pc = "built") =>
        \A perm \in Permutations(1..Len(comments)) :
            build_network(posts, Permuted(comments, perm)) = adjacency

C3_Witness ==
    /\ script = "rigorous_analysis"
    /\ pc = "built"
    /\ Len(comments) = 2
    /\ comments[1] # comments[2]
    /\ Cardinality(ResolvedEdges(posts, comments)) = 2
    /\ \E s \in DOMAIN adjacency : Cardinality(DOMAIN adjacency[s]) = 2

\* the comments of the file whose commenter is s and whose post is by t
RawEdges(s, t) ==
    {j \in 1..Len(raw_comments) :
        /\ Commenter(raw_comments[j]) = s
        /\ PostAuthor(PostAuthors(raw_posts), raw_comments[j]) = t}

\* C4: with spam filtering on, the adjacency holds exactly the resolved,
\* non-self edges of the files whose source and target are both outside
\* SPAM_ACCOUNTS, each with its full weight.
C4_SpamFiltered ==
    (script = "rigorous_analysis" /\ filter_spam /\ pc = "built") =>
        /\ DOMAIN adjacency \cap SPAM_ACCOUNTS = {}
        /\ Targets(adjacency) \cap SPAM_ACCOUNTS = {}
        /\ \A s \in InputNames \cup DOMAIN adjacency :
             \A t \in InputNames \cup Targets(adjacency) :
               Weight(adjacency, s, t) =
                   IF /\ s \notin SPAM_ACCOUNTS
                      /\ t \notin SPAM_ACCOUNTS
                      /\ IsResolved(s)
                      /\ IsResolved(t)
                      /\ s # t
                   THEN Cardinality(RawEdges(s, t))
                   ELSE 0

C4_Witness ==
    /\ script = "rigorous_analysis"
    /\ filter_spam
    /\ pc = "built"
    /\ \E j \in 1..Len(raw_comments) :
           \/ PostAuthor(PostAuthors(raw_posts), raw_comments[j]) \in SPAM_ACCOUNTS
           \/ Commenter(raw_comments[j]) \in SPAM_ACCOUNTS
    /\ DOMAIN adjacency # {}

----------------------------------------------------------------------------
(* SpecStats: the statistics functions, called on an adjacency             *)

DirectedPairs == {e \in StatNames \X StatNames : e[1] # e[2]}

\* the adjacency whose entries are the pairs of positive weight in w
AdjacencyOf(w) ==
    LET srcs == {e[1] : e \in {x \in DOMAIN w : w[x] > 0}} IN
    [s \in srcs |->
        [t \in {e[2] : e \in {x \in DOMAIN w : x[1] = s /\ w[x] > 0}} |-> w[<<s, t>>]]]

\* every adjacency over StatNames that a builder can return with at most
\* MaxEdges accepted comments
AdjacencyInputs ==
    {AdjacencyOf(w) :
        w \in {v \in [DirectedPairs -> 0..MaxEdges] :
                  SumOver(v, DirectedPairs) <= MaxEdges}}

ExamplePosts ==
    << [id |-> 1, author |-> Author("A")], [id |-> 2, author |-> Author("B")],
       [id |-> 3, author |-> Author("C")], [id |-> 4, author |-> Author("D")] >>

Comment(name, post_id) == [author |-> Author(name), post_id |-> post_id]

\* the edges (A,B) x 10, (B,A) x 2, (C,B) x 1
ExampleEndToEnd ==
    build_network(ExamplePosts,
        [j \in 1..10 |-> Comment("A", 2)] \o [j \in 1..2 |-> Comment("B", 1)]
            \o <<Comment("C", 2)>>)

\* the edges (A,B), (B,A), (C,D)
ExampleDyads ==
    build_network(ExamplePosts, <<Comment("A", 2), Comment("B", 1), Comment("C", 4)>>)

InitStats ==
    /\ script = "import"
    /\ filter_spam = FALSE
    /\ raw_posts = <<>>
    /\ raw_comments = <<>>
    /\ posts = <<>>
    /\ comments = <<>>
    /\ post_authors = EmptyMap
    /\ i = 0
    /\ adjacency \in AdjacencyInputs \cup {ExampleEndToEnd, ExampleDyads}
    /\ edges = <<>>
    /\ out_degree = EmptyMap
    /\ in_degree = EmptyMap
    /\ stats = NoStats
    /\ stats_locals = [out |-> EmptyMap, in |-> EmptyMap]
    /\ recip = <<Zero, 0, 0>>
    /\ out_degrees = EmptyMap
    /\ returned = {}
    /\ n_samples = 0
    /\ boot_edges = <<>>
    /\ reciprocities = <<>>
    /\ ci = <<Zero, Zero>>
    /\ results = <<>>
    /\ fit = NoFit
    /\ rng_stream = <<>>
    /\ sample_adj = EmptyMap
    /\ fit_k = 0
    /\ best = NoBest
    /\ tried = <<>>
    /\ gini = NoGini
    /\ edge_recip = Zero
    /\ pc = "call"

\* recip, n_pairs, n_mutual = compute_dyadic_reciprocity(adjacency)
CallDyadicReciprocity ==
    /\ pc = "call"
    /\ recip' = compute_dyadic_reciprocity(adjacency)
    /\ adjacency' = dyadic_reciprocity_adjacency(adjacency)
    /\ returned' = returned \cup {"compute_dyadic_reciprocity"}
    /\ UNCHANGED <<buildVars, stats, stats_locals, out_degrees, pc, bootVars>>
    /\ UNCHANGED <<sample_adj, fitVars, gini, edge_recip>>

\* rigorous_analysis.main, lines 207-209
CallOutDegrees ==
    /\ pc = "call"
    /\ out_degrees' = main_out_degrees(adjacency)
    /\ returned' = returned \cup {"out_degrees"}
    /\ UNCHANGED <<buildVars, adjacency, stats, stats_locals, recip, pc, bootVars>>
    /\ UNCHANGED <<sample_adj, fitVars, gini, edge_recip>>

\* compute_degree_stats(adjacency)
CallDegreeStats ==
    /\ pc = "call"
    /\ stats' = compute_degree_stats(adjacency)
    /\ stats_locals' = degree_vectors(adjacency)
    /\ returned' = returned \cup {"compute_degree_stats"}
    /\ UNCHANGED <<buildVars, adjacency, recip, out_degrees, pc, bootVars>>
    /\ UNCHANGED <<sample_adj, fitVars, gini, edge_recip>>

\* network_stats.compute_reciprocity(adjacency): it iterates and uses .get
CallReciprocity ==
    /\ pc = "call"
    /\ edge_recip' = compute_reciprocity(adjacency)
    /\ returned' = returned \cup {"compute_reciprocity"}
    /\ UNCHANGED <<buildVars, adjacency, stats, stats_locals, recip, out_degrees,
                   pc, bootVars, sample_adj, fitVars, gini>>

\* bootstrap_reciprocity(adjacency, 1), for adjacencies of at most
\* MaxSeedEdges edges: the edges are read by iteration, the resample goes
\* to sample_adj
CallBootstrap ==
    /\ pc = "call"
    /\ TotalWeight(adjacency) <= MaxSeedEdges
    /\ \E draws \in [1..TotalWeight(adjacency) -> 1..TotalWeight(adjacency)] :
           /\ boot_edges' = EdgeList(adjacency)
           /\ sample_adj' = SampleAdjacency(EmptyMap, Choices(boot_edges', draws))
           /\ reciprocities' = <<compute_dyadic_reciprocity(sample_adj')[1]>>
           /\ ci' = bootstrap_reciprocity(adjacency, 1, draws, 0)
    /\ returned' = returned \cup {"bootstrap_reciprocity"}
    /\ UNCHANGED <<buildVars, adjacency, stats, stats_locals, recip, out_degrees,
                   pc, n_samples, results, fit, rng_stream, fitVars, gini, edge_recip>>

NextStats ==
    \/ CallDyadicReciprocity
    \/ CallOutDegrees
    \/ CallDegreeStats
    \/ CallReciprocity
    \/ CallBootstrap

SpecStats == InitStats /\ [][NextStats]_vars

----------------------------------------------------------------------------
(* Properties of the statistics                                            *)

\* C5 as stated: out-degrees {A:10, C:1}, in-degrees {B:12, A:2}
C5_ExampleAsStated ==
    (adjacency = ExampleEndToEnd
        /\ {"out_degrees", "compute_degree_stats"} \subseteq returned) =>
        /\ out_degrees = ("A" :> 10 @@ "C" :> 1)
        /\ stats_locals.in = ("B" :> 12 @@ "A" :> 2)

\* C5 (amended): for the edges (A,B) x 10, (B,A) x 2, (C,B) x 1 the
\* out-degree vector is {A:10, B:2, C:1} and the in-degree vector is
\* {B:11, A:2}.
C5_ExampleDegrees ==
    (adjacency = ExampleEndToEnd
        /\ {"out_degrees", "compute_degree_stats"} \subseteq returned) =>
        /\ out_degrees = ("A" :> 10 @@ "B" :> 2 @@ "C" :> 1)
        /\ stats_locals.out = out_degrees
        /\ stats_locals.in = ("B" :> 11 @@ "A" :> 2)

C5_Witness ==
    /\ adjacency = ExampleEndToEnd
    /\ Weight(adjacency, "A", "B") = 10
    /\ {"out_degrees", "compute_degree_stats"} \subseteq returned

Nodes(adj) == DOMAIN adj \cup Targets(adj)

\* the unordered pairs with an edge of weight >= 1 in at least one direction
Dyads(adj) ==
    {d \in SUBSET Nodes(adj) :
        /\ Cardinality(d) = 2
        /\ \E a \in d, b \in d :
               a # b /\ (Weight(adj, a, b) >= 1 \/ Weight(adj, b, a) >= 1)}

\* those with edges in both directions
MutualDyads(adj) ==
    {d \in Dyads(adj) : \A a \in d, b \in d : a # b => Weight(adj, a, b) >= 1}

Unweighted(adj) == [s \in DOMAIN adj |-> [t \in DOMAIN adj[s] |-> 1]]

NoSelfLoops(adj) == \A s \in DOMAIN adj : s \notin DOMAIN adj[s]

\* C6: for an adjacency without self-loops compute_dyadic_reciprocity returns
\* (mutual/pairs, pairs, mutual), pairs the number of unordered pairs joined
\* in at least one direction and mutual the number joined in both, whatever
\* the weights, and 0 without pairs; (A,B),(B,A),(C,D) give 1/2 and
\* (A,B) x 10, (B,A) x 2, (C,B) x 1 give pairs = 2, mutual = 1, ratio 0.5.
C6_DyadicReciprocity ==
    ("compute_dyadic_reciprocity" \in returned /\ NoSelfLoops(adjacency)) =>
        LET P == Cardinality(Dyads(adjacency))
            M == Cardinality(MutualDyads(adjacency))
        IN  /\ recip[2] = P
            /\ recip[3] = M
            /\ recip[1] = (IF P = 0 THEN Zero ELSE Ratio(M, P))
            /\ P = 0 => recip[1][1] = 0
            /\ P > 0 => recip[1][1] * P = M * recip[1][2]
            /\ recip = compute_dyadic_reciprocity(Unweighted(adjacency))
            /\ adjacency = ExampleDyads => recip = <<<<1, 2>>, 2, 1>>
            /\ adjacency = ExampleEndToEnd => recip = <<<<1, 2>>, 2, 1>>

C6_Witness ==
    /\ "compute_dyadic_reciprocity" \in returned
    /\ adjacency = ExampleDyads
    /\ Cardinality(Dyads(adjacency)) = 2
    /\ Cardinality(MutualDyads(adjacency)) = 1

----------------------------------------------------------------------------
(* SpecAnalysis: rigorous_analysis.main from the built adjacency on        *)

SampleCounts == (-1)..MaxSamples

InitAnalysis ==
    /\ script = "rigorous_analysis"
    /\ filter_spam = TRUE
    /\ raw_posts = <<>>
    /\ raw_comments = <<>>
    /\ posts = <<>>
    /\ comments = <<>>
    /\ post_authors = EmptyMap
    /\ i = 0
    /\ adjacency \in AdjacencyInputs
    /\ edges = <<>>
    /\ out_degree = EmptyMap
    /\ in_degree = EmptyMap
    /\ stats = NoStats
    /\ stats_locals = [out |-> EmptyMap, in |-> EmptyMap]
    /\ recip = <<Zero, 0, 0>>
    /\ out_degrees = EmptyMap
    /\ returned = {}
    /\ n_samples \in SampleCounts
    /\ boot_edges = <<>>
    /\ reciprocities = <<>>
    /\ ci = <<Zero, Zero>>
    /\ results = <<>>
    /\ fit = NoFit
    /\ rng_stream = <<>>
    /\ sample_adj = EmptyMap
    /\ fit_k = 0
    /\ best = NoBest
    /\ tried = <<>>
    /\ gini = NoGini
    /\ edge_recip = Zero
    /\ pc = "dyadic"

\* main, line 189: recip, n_pairs, n_mutual = compute_dyadic_reciprocity(adjacency)
MainDyadic ==
    /\ pc = "dyadic"
    /\ recip' = compute_dyadic_reciprocity(adjacency)
    /\ returned' = returned \cup {"compute_dyadic_reciprocity"}
    /\ adjacency' = dyadic_reciprocity_adjacency(adjacency)
    /\ pc' = "bootstrap"
    /\ UNCHANGED <<buildVars, stats, stats_locals, out_degrees, bootVars>>
    /\ UNCHANGED <<sample_adj, fitVars, gini, edge_recip>>

\* bootstrap_reciprocity, lines 89-96: edges, reciprocities = [], n = len(edges)
BootstrapStart ==
    /\ pc = "bootstrap"
    /\ boot_edges' = EdgeList(adjacency)
    /\ reciprocities' = <<>>
    /\ pc' = "resample"
    /\ UNCHANGED <<buildVars, adjacency, stats, stats_locals, statVars,
                   n_samples, ci, results, fit, rng_stream>>
    /\ UNCHANGED <<sample_adj, fitVars, gini, edge_recip>>

\* one iteration of `for _ in range(n_samples)` with the given draws
ResampleStep(draws) ==
    /\ pc = "resample"
    /\ Len(reciprocities) < n_samples
    /\ sample_adj' = SampleAdjacency(EmptyMap, Choices(boot_edges, draws))
    /\ reciprocities' = Append(reciprocities, compute_dyadic_reciprocity(sample_adj')[1])
    /\ UNCHANGED <<buildVars, adjacency, stats, stats_locals, statVars,
                   n_samples, boot_edges, ci, results, fit, pc>>
    /\ UNCHANGED <<fitVars, gini, edge_recip>>

DrawInputs == [1..Len(boot_edges) -> 1..Len(boot_edges)]

\* lines 98-106, any outcome of random.choices
BootstrapResample ==
    \E draws \in DrawInputs : ResampleStep(draws) /\ UNCHANGED rng_stream

\* lines 108-112: sort, index, return
BootstrapReturn ==
    /\ pc = "resample"
    /\ ~ (Len(reciprocities) < n_samples)
    /\ reciprocities' = Sort(reciprocities)
    /\ IF IndexOk(reciprocities', RankLow(n_samples))
          /\ IndexOk(reciprocities', RankHigh(n_samples))
       THEN /\ ci' = <<Index(reciprocities', RankLow(n_samples)),
                       Index(reciprocities', RankHigh(n_samples))>>
            /\ results' = Append(results, ci')
            /\ pc' = "returned"
       ELSE /\ pc' = "IndexError"
            /\ UNCHANGED <<ci, results>>
    /\ UNCHANGED <<buildVars, adjacency, stats, stats_locals, statVars,
                   n_samples, boot_edges, fit, rng_stream>>
    /\ UNCHANGED <<sample_adj, fitVars, gini, edge_recip>>

\* main, lines 207-219: the out-degree Counter and the power-law fit
MainPowerLaw ==
    /\ pc = "returned"
    /\ out_degrees' = main_out_degrees(adjacency)
    /\ fit' = estimate_alpha_with_kmin_search(out_degrees')
    /\ returned' = returned \cup {"out_degrees"}
    /\ pc' = "summary"
    /\ UNCHANGED <<buildVars, adjacency, stats, stats_locals, recip,
                   n_samples, boot_edges, reciprocities, ci, results, rng_stream>>
    /\ UNCHANGED <<sample_adj, fitVars, gini, edge_recip>>

\* main, lines 225-230: f"{alpha:.2f}" raises TypeError when alpha is None
MainSummary ==
    /\ pc = "summary"
    /\ pc' = IF fit.alpha = "None" THEN "TypeError" ELSE "done"
    /\ UNCHANGED <<buildVars, adjacency, stats, stats_locals, statVars, bootVars>>
    /\ UNCHANGED <<sample_adj, fitVars, gini, edge_recip>>

NextAnalysis ==
    \/ MainDyadic
    \/ BootstrapStart
    \/ BootstrapResample
    \/ BootstrapReturn
    \/ MainPowerLaw
    \/ MainSummary

SpecAnalysis == InitAnalysis /\ [][NextAnalysis]_vars

----------------------------------------------------------------------------
(* SpecSeed: one random.seed, then calls of bootstrap_reciprocity          *)

SeedInputs == {a \in AdjacencyInputs : TotalOut(a) <= MaxSeedEdges}

InitSeed ==
    /\ script = "rigorous_analysis"
    /\ filter_spam = TRUE
    /\ raw_posts = <<>>
    /\ raw_comments = <<>>
    /\ posts = <<>>
    /\ comments = <<>>
    /\ post_authors = EmptyMap
    /\ i = 0
    /\ adjacency \in SeedInputs
    /\ edges = <<>>
    /\ out_degree = EmptyMap
    /\ in_degree = EmptyMap
    /\ stats = NoStats
    /\ stats_locals = [out |-> EmptyMap, in |-> EmptyMap]
    /\ recip = <<Zero, 0, 0>>
    /\ out_degrees = EmptyMap
    /\ returned = {}
    /\ n_samples \in 1..MaxSamples
    /\ boot_edges = <<>>
    /\ reciprocities = <<>>
    /\ ci = <<Zero, Zero>>
    /\ results = <<>>
    /\ fit = NoFit
    /\ rng_stream = <<>>
    /\ sample_adj = EmptyMap
    /\ fit_k = 0
    /\ best = NoBest
    /\ tried = <<>>
    /\ gini = NoGini
    /\ edge_recip = Zero
    /\ pc = "seed"

\* __main__, line 233: random.seed(42)
Seed ==
    /\ pc = "seed"
    /\ rng_stream' = <<>>
    /\ pc' = "dyadic"
    /\ UNCHANGED <<buildVars, adjacency, stats, stats_locals, statVars,
                   n_samples, boot_edges, reciprocities, ci, results, fit>>
    /\ UNCHANGED <<sample_adj, fitVars, gini, edge_recip>>

\* lines 98-106: random.choices takes the next n draws of the stream
SeededResample ==
    \E draws \in DrawInputs : ResampleStep(draws) /\ rng_stream' = rng_stream \o draws

\* the process calls bootstrap_reciprocity(adjacency, n_samples) once more
CallAgain ==
    /\ pc = "returned"
    /\ Len(results) < MaxCalls
    /\ pc' = "bootstrap"
    /\ UNCHANGED <<buildVars, adjacency, stats, stats_locals, statVars, bootVars>>
    /\ UNCHANGED <<sample_adj, fitVars, gini, edge_recip>>

NextSeed ==
    \/ Seed
    \/ MainDyadic
    \/ BootstrapStart
    \/ SeededResample
    \/ BootstrapReturn
    \/ CallAgain

SpecSeed == InitSeed /\ [][NextSeed]_vars

----------------------------------------------------------------------------
(* Properties of the analysis                                              *)

One == <<1, 1>>

AfterBootstrap == pc \in {"returned", "summary", "TypeError", "done"}

\* C7 as stated: ci_low <= point estimate <= ci_high for every adjacency,
\* every N >= 1 and every outcome of the draws
C7_IntervalBrackets ==
    (AfterBootstrap /\ n_samples >= 1) =>
        /\ Leq(ci[1], recip[1])
        /\ Leq(recip[1], ci[2])

\* what does hold of the interval for every outcome of the draws: it lies
\* in [0, 1] with ci_low <= ci_high; it is (0, 0) when the original graph has
\* no mutual pair, and it lies at or below the estimate when every pair of
\* the original graph is mutual.
IntervalWithinUnit ==
    (AfterBootstrap /\ n_samples >= 1) =>
        /\ Leq(Zero, ci[1])
        /\ Leq(ci[1], ci[2])
        /\ Leq(ci[2], One)
        /\ recip[3] = 0 => (ci[1] = Zero /\ ci[2] = Zero /\ recip[1] = Zero)
        /\ (recip[2] > 0 /\ recip[3] = recip[2]) => Leq(ci[2], recip[1])

IsAscending(xs) == \A k \in 1..(Len(xs) - 1) : Leq(xs[k], xs[k + 1])

\* C8: for N >= 1 bootstrap_reciprocity computes exactly N resample
\* reciprocities and returns those at zero-based ranks floor(0.025 N) and
\* floor(0.975 N) of their ascending sort; both ranks lie in 0..N-1, so
\* ci_low <= ci_high.
C8_RanksOfSortedResamples ==
    /\ (pc = "resample" /\ n_samples >= 1) => Len(reciprocities) <= n_samples
    /\ (AfterBootstrap /\ n_samples >= 1) =>
           /\ Len(reciprocities) = n_samples
           /\ IsAscending(reciprocities)
           /\ ci[1] = reciprocities[(n_samples \div 40) + 1]
           /\ ci[2] = reciprocities[((39 * n_samples) \div 40) + 1]
           /\ Leq(ci[1], ci[2])
    /\ n_samples >= 1 => pc # "IndexError"
    /\ \A n \in 1..MaxRankSamples :
           /\ RankLow(n) = n \div 40
           /\ RankHigh(n) = (39 * n) \div 40
           /\ 0 <= RankLow(n)
           /\ RankLow(n) <= RankHigh(n)
           /\ RankHigh(n) <= n - 1

C8_Witness ==
    /\ AfterBootstrap
    /\ n_samples = 2
    /\ Len(reciprocities) = 2
    /\ ci[1] = Zero
    /\ ci[2] = One

\* C9: the interval a call returns is the one a call made right after
\* random.seed returns for the same adjacency and n_samples, whatever used
\* the random module before it.
C9_Reproducible ==
    \A k \in 1..Len(results) :
        results[k] = bootstrap_reciprocity(adjacency, n_samples, rng_stream, 0)

\* call k (from 1) reads the stream from where call k-1 left it
ResultFollowsStreamPosition ==
    \A k \in 1..Len(results) :
        results[k] = bootstrap_reciprocity(adjacency, n_samples, rng_stream,
                                           (k - 1) * n_samples * Len(boot_edges))

\* C10: with an empty adjacency every step of the run reports a zero or
\* absent value and none raises: reciprocity 0 with interval (0, 0), empty
\* degree vectors, Gini 0, no power-law fit, and the run ends.
C10_EmptyInputDefined ==
    (DOMAIN adjacency = {} /\ n_samples >= 1) =>
        /\ pc \notin {"TypeError", "IndexError"}
        /\ "compute_dyadic_reciprocity" \in returned => recip = <<Zero, 0, 0>>
        /\ AfterBootstrap => ci = <<Zero, Zero>>
        /\ pc \in {"summary", "done"} =>
               (out_degrees = EmptyMap /\ fit.alpha = "None" /\ fit.k_min = "None")
        /\ compute_gini(main_out_degrees(adjacency)) = Zero
        /\ degree_vectors(adjacency) = [out |-> EmptyMap, in |-> EmptyMap]

\* what does hold of an empty adjacency: every value before the summary
EmptyInputValues ==
    (DOMAIN adjacency = {} /\ n_samples >= 1) =>
        /\ pc # "IndexError"
        /\ "compute_dyadic_reciprocity" \in returned => recip = <<Zero, 0, 0>>
        /\ AfterBootstrap => ci = <<Zero, Zero>>
        /\ pc \in {"summary", "done", "TypeError"} =>
               (out_degrees = EmptyMap /\ fit.alpha = "None" /\ fit.k_min = "None")
        /\ compute_gini(main_out_degrees(adjacency)) = Zero
        /\ pc # "done"

----------------------------------------------------------------------------
(* SpecFit: the candidate loop of estimate_alpha_with_kmin_search          *)

\* the degree values the input vectors are made of
HistValues == <<1, 3, 20>>

\* how many nodes hold each value: around the sample threshold
CountInputs == {0, 1, MinSample - 1, MinSample}

\* the degrees dictionary (node id -> degree) with counts[j] nodes of HistValues[j]
RECURSIVE DegreesOf(_, _)
DegreesOf(counts, j) ==
    IF j > Len(HistValues) THEN <<>>
    ELSE [n \in 1..counts[j] |-> HistValues[j]] \o DegreesOf(counts, j + 1)

FitInputs == {DegreesOf(c, 1) : c \in [1..Len(HistValues) -> CountInputs]}

InitFit ==
    /\ script = "rigorous_analysis"
    /\ filter_spam = TRUE
    /\ raw_posts = <<>>
    /\ raw_comments = <<>>
    /\ posts = <<>>
    /\ comments = <<>>
    /\ post_authors = EmptyMap
    /\ i = 0
    /\ adjacency = EmptyMap
    /\ edges = <<>>
    /\ out_degree = EmptyMap
    /\ in_degree = EmptyMap
    /\ stats = NoStats
    /\ stats_locals = [out |-> EmptyMap, in |-> EmptyMap]
    /\ recip = <<Zero, 0, 0>>
    /\ out_degrees \in FitInputs
    /\ returned = {}
    /\ n_samples = 0
    /\ boot_edges = <<>>
    /\ reciprocities = <<>>
    /\ ci = <<Zero, Zero>>
    /\ results = <<>>
    /\ fit = NoFit
    /\ rng_stream = <<>>
    /\ sample_adj = EmptyMap
    /\ fit_k = 0
    /\ best = NoBest
    /\ tried = <<>>
    /\ gini = NoGini
    /\ edge_recip = Zero
    /\ pc = "fit"

fitFrame == <<buildVars, adjacency, stats, stats_locals, statVars, n_samples,
              boot_edges, reciprocities, ci, results, rng_stream, sample_adj,
              gini, edge_recip>>

\* lines 137-139
FitStart ==
    /\ pc = "fit"
    /\ best' = NoBest
    /\ fit_k' = 0
    /\ tried' = <<>>
    /\ pc' = "fit_loop"
    /\ UNCHANGED <<fitFrame, fit>>

\* one iteration of `for k_min in [1, 2, 3, 5, 10, 20]`, lines 141-157
FitCandidate ==
    /\ pc = "fit_loop"
    /\ fit_k < Len(Candidates)
    /\ LET k_min == Candidates[fit_k + 1] IN
         IF IsSkipped(out_degrees, k_min)
         THEN /\ tried' = Append(tried, Skipped)
              /\ UNCHANGED best
         ELSE \E ks \in KsOutcomes(out_degrees, k_min) :
                  /\ tried' = Append(tried, ks)
                  /\ best' = UpdateBest(best, k_min, ks)
    /\ fit_k' = fit_k + 1
    /\ UNCHANGED <<fitFrame, fit, pc>>

\* line 159: return best_alpha, best_kmin, best_ks
FitReturn ==
    /\ pc = "fit_loop"
    /\ fit_k = Len(Candidates)
    /\ fit' = FitOf(best)
    /\ returned' = returned \cup {"estimate_alpha_with_kmin_search"}
    /\ pc' = "fit_returned"
    /\ UNCHANGED <<buildVars, adjacency, stats, stats_locals, recip, out_degrees,
                   n_samples, boot_edges, reciprocities, ci, results, rng_stream,
                   sample_adj, fitVars, gini, edge_recip>>

NextFit ==
    \/ FitStart
    \/ FitCandidate
    \/ FitReturn

SpecFit == InitFit /\ [][NextFit]_vars

\* the loop returns what the operator used by main says
FitAgreesWithOperator ==
    pc = "fit_returned" => fit = estimate_alpha_with_kmin_search(out_degrees)

----------------------------------------------------------------------------
(* Properties of the cutoff search                                         *)

\* the candidates consumed so far that were fitted
Fitted == {j \in 1..Len(tried) : tried[j] # Skipped}

\* C11: a candidate cutoff with fewer than 50 degree values >= k_min is
\* skipped and is never the selected one; when every candidate is skipped
\* the result has alpha None and k_min None; the loop has no raising step.
C11_InsufficientSampleSkipped ==
    /\ \A j \in 1..Len(tried) :
           TailSize(out_degrees, Candidates[j]) < MinSample =>
               (tried[j] = Skipped /\ best.k_min # Candidates[j])
    /\ best.k_min # 0 => TailSize(out_degrees, best.k_min) >= MinSample
    /\ (pc = "fit_returned" /\ Fitted = {}) =>
           (fit.alpha = "None" /\ fit.k_min = "None" /\ best = NoBest)
    /\ pc \in {"fit", "fit_loop", "fit_returned"}

C11_Witness ==
    /\ pc = "fit_returned"
    /\ fit.alpha = "float"
    /\ \E j \in 1..Len(tried) :
           /\ TailSize(out_degrees, Candidates[j]) = MinSample - 1
           /\ tried[j] = Skipped

\* C12: the result is the (k_min, alpha, KS) of a fitted candidate of minimal
\* KS statistic; no fitted candidate has a strictly smaller statistic, and
\* among those sharing the minimum the smallest cutoff is returned.
C12_MinimalKsSelected ==
    IF Fitted = {} THEN best = NoBest
    ELSE \E j \in Fitted :
             /\ best = [alpha |-> Candidates[j], k_min |-> Candidates[j], ks |-> tried[j]]
             /\ \A m \in Fitted :
                    /\ tried[m] >= tried[j]
                    /\ tried[m] = tried[j] => Candidates[m] >= Candidates[j]

C12_Witness ==
    /\ pc = "fit_returned"
    /\ \E j, m \in Fitted :
           /\ 1 \in Fitted
           /\ 1 < j
           /\ j < m
           /\ tried[1] > tried[j]
           /\ tried[j] = tried[m]
           /\ best.ks = tried[j]
           /\ best.k_min = Candidates[j]

\* C13: a candidate cutoff with at least 50 qualifying values, all equal to
\* the cutoff, is rejected: it yields no alpha and is never selected.
C13_DegenerateRejected ==
    \A j \in 1..Len(tried) :
        (/\ TailSize(out_degrees, Candidates[j]) >= MinSample
         /\ AllAtCutoff(out_degrees, Candidates[j])) =>
            /\ tried[j] = Skipped
            /\ best.alpha # Candidates[j]
            /\ best.k_min # Candidates[j]

\* what the code does with such a candidate: it is fitted, with statistic 1.0
DegenerateFitted ==
    \A j \in 1..Len(tried) :
        (/\ TailSize(out_degrees, Candidates[j]) >= MinSample
         /\ AllAtCutoff(out_degrees, Candidates[j])) =>
            /\ tried[j] = MaxKs
            /\ estimate_power_law_exponent(out_degrees, Candidates[j]) = "float"

----------------------------------------------------------------------------
(* Properties of the bootstrap call                                        *)

\* C14: with n_samples <= 0 bootstrap_reciprocity signals a usage error
\* before any computation: the edges are not expanded, no resample is made,
\* the failure is not an incidental IndexError, and no interval is returned.
C14_FailsFast ==
    n_samples <= 0 =>
        /\ boot_edges = <<>>
        /\ reciprocities = <<>>
        /\ pc # "IndexError"
        /\ results = <<>>
        /\ ~ AfterBootstrap

\* what the code does with n_samples <= 0: it expands the edges, resamples
\* nothing and fails indexing the empty list; it never returns an interval
NonPositiveCountRaisesLate ==
    n_samples <= 0 =>
        /\ reciprocities = <<>>
        /\ results = <<>>
        /\ ~ AfterBootstrap
        /\ pc = "IndexError" => boot_edges = EdgeList(adjacency)

----------------------------------------------------------------------------
(* SpecGini: the Gini coefficient of a degree vector                       *)

MaxNodes == 4

MaxDegree == 3

\* degree vectors: node id -> degree, zeros included
GiniInputs == UNION {[1..n -> 0..MaxDegree] : n \in 0..MaxNodes}

InitGini ==
    /\ script = "degree_distribution"
    /\ filter_spam = FALSE
    /\ raw_posts = <<>>
    /\ raw_comments = <<>>
    /\ posts = <<>>
    /\ comments = <<>>
    /\ post_authors = EmptyMap
    /\ i = 0
    /\ adjacency = EmptyMap
    /\ edges = <<>>
    /\ out_degree = EmptyMap
    /\ in_degree = EmptyMap
    /\ stats = NoStats
    /\ stats_locals = [out |-> EmptyMap, in |-> EmptyMap]
    /\ recip = <<Zero, 0, 0>>
    /\ out_degrees \in GiniInputs
    /\ returned = {}
    /\ n_samples = 0
    /\ boot_edges = <<>>
    /\ reciprocities = <<>>
    /\ ci = <<Zero, Zero>>
    /\ results = <<>>
    /\ fit = NoFit
    /\ rng_stream = <<>>
    /\ sample_adj = EmptyMap
    /\ fit_k = 0
    /\ best = NoBest
    /\ tried = <<>>
    /\ gini = NoGini
    /\ edge_recip = Zero
    /\ pc = "gini"

giniFrame == <<buildVars, adjacency, stats, stats_locals, recip, out_degrees,
               bootVars, sample_adj, fitVars, edge_recip, pc>>

\* degree_distribution.compute_gini(degrees)
CallGini ==
    /\ pc = "gini"
    /\ "compute_gini" \notin returned
    /\ gini' = [gini EXCEPT !.compute_gini = compute_gini(out_degrees)]
    /\ returned' = returned \cup {"compute_gini"}
    /\ UNCHANGED giniFrame

\* run_exhaustive.main, lines 127-132
CallGiniExhaustive ==
    /\ pc = "gini"
    /\ "run_exhaustive" \notin returned
    /\ gini' = [gini EXCEPT !.run_exhaustive = run_exhaustive_gini(out_degrees, @)]
    /\ returned' = returned \cup {"run_exhaustive"}
    /\ UNCHANGED giniFrame

NextGini ==
    \/ CallGini
    \/ CallGiniExhaustive

SpecGini == InitGini /\ [][NextGini]_vars

----------------------------------------------------------------------------
(* Properties of the Gini coefficient                                      *)

VectorSum(d) == SumOver(d, DOMAIN d)

AllEqual(d) == \A x, y \in DOMAIN d : d[x] = d[y]

\* C15: compute_gini returns 0 for every vector whose values are all equal
\* (any length >= 1, any common value), for every vector that sums to zero
\* and for the empty vector.
C15_GiniZero ==
    "compute_gini" \in returned =>
        /\ AllEqual(out_degrees) => gini.compute_gini = Zero
        /\ VectorSum(out_degrees) = 0 => gini.compute_gini = Zero
        /\ DOMAIN out_degrees = {} => gini.compute_gini = Zero

C15_Witness ==
    /\ "compute_gini" \in returned
    /\ Len(out_degrees) = 3
    /\ AllEqual(out_degrees)
    /\ out_degrees[1] = 2
    /\ gini.compute_gini = Zero

\* exactly one node holds a positive value, every other node holds 0
OneHolder(d) ==
    /\ \E x \in DOMAIN d : d[x] > 0 /\ \A y \in DOMAIN d \ {x} : d[y] = 0

MaxVectorLength == 60

\* C16: for a vector of length n in which one node holds a positive value
\* and the other n-1 hold 0, compute_gini returns exactly (n-1)/n whatever
\* the value; the coefficient is below 1 and grows with n.
C16_GiniOneHolder ==
    /\ ("compute_gini" \in returned /\ OneHolder(out_degrees)) =>
           /\ gini.compute_gini = Ratio(Len(out_degrees) - 1, Len(out_degrees))
           /\ Less(gini.compute_gini, One)
    /\ \A n \in 1..MaxVectorLength :
           /\ Less(Ratio(n - 1, n), One)
           /\ Less(Ratio(n - 1, n), Ratio(n, n + 1))

C16_Witness ==
    /\ "compute_gini" \in returned
    /\ Len(out_degrees) = 4
    /\ OneHolder(out_degrees)
    /\ out_degrees[2] = 3
    /\ gini.compute_gini = <<3, 4>>

\* in exact arithmetic the inline formula of run_exhaustive is compute_gini
InlineGiniAgrees ==
    ({"compute_gini", "run_exhaustive"} \subseteq returned /\ DOMAIN out_degrees # {}) =>
        gini.run_exhaustive = gini.compute_gini

----------------------------------------------------------------------------
(* Properties of the medians                                               *)

\* the out_vals / in_vals of compute_degree_stats: a value per node
ValsOver(d, nodes) == [n \in nodes |-> Get(d, n, 0)]

StatNodes == DOMAIN stats_locals.out \cup DOMAIN stats_locals.in

\* C17: every degree summary reports as median the single element at
\* zero-based index floor(n/2) of the ascending degree values, for odd and
\* even n alike, never the mean of the two middle values.
C17_MedianAtFloorHalf ==
    ("compute_degree_stats" \in returned /\ StatNodes # {}) =>
        /\ main_median(stats_locals.out) = ElementAtHalf(stats_locals.out)
        /\ latex_median_out(stats_locals.out, stats_locals.in)
               = ElementAtHalf(ValsOver(stats_locals.out, StatNodes))
        /\ stats.out_degree_median
               = Ratio(ElementAtHalf(ValsOver(stats_locals.out, StatNodes)), 1)
        /\ stats.in_degree_median
               = Ratio(ElementAtHalf(ValsOver(stats_locals.in, StatNodes)), 1)

\* what holds: main and generate_latex_table take the element at floor(n/2);
\* compute_degree_stats does so for an odd number of nodes only
MedianAtFloorHalfWhenOdd ==
    ("compute_degree_stats" \in returned /\ StatNodes # {}) =>
        /\ main_median(stats_locals.out) = ElementAtHalf(stats_locals.out)
        /\ latex_median_out(stats_locals.out, stats_locals.in)
               = ElementAtHalf(ValsOver(stats_locals.out, StatNodes))
        /\ Cardinality(StatNodes) % 2 = 1 =>
               stats.out_degree_median
                   = Ratio(ElementAtHalf(ValsOver(stats_locals.out, StatNodes)), 1)

----------------------------------------------------------------------------
(* The analyzers and the adjacency                                         *)

\* C18: compute_dyadic_reciprocity, bootstrap_reciprocity, compute_reciprocity
\* and compute_degree_stats, called in any order and any number of times,
\* leave the adjacency with the same source keys, the same targets under
\* each source and the same weights.
C18_AdjacencyReadOnly == [][adjacency' = adjacency]_vars

\* all four have returned on an adjacency with a node that only receives
\* and a resample that lost an entry of the original
C18_Witness ==
    /\ {"compute_dyadic_reciprocity", "bootstrap_reciprocity",
        "compute_reciprocity", "compute_degree_stats"} \subseteq returned
    /\ Targets(adjacency) \ DOMAIN adjacency # {}
    /\ Cardinality(Entries(adjacency)) >= 2
    /\ Entries(sample_adj) # Entries(adjacency)

----------------------------------------------------------------------------
(* The builders compared                                                   *)

\* C19: for the same posts and comments every builder counts an edge
\* exactly when rigorous_analysis.build_network does (both ends non-empty,
\* both different from "unknown", and distinct), so the variants produce
\* the weights and degrees of rigorous_analysis.build_network.
C19_OneDropPolicy ==
    LET reference == build_network(posts, comments)
        pa == PostAuthors(posts)
    IN
    /\ script \in {"network_stats", "degree_distribution"} =>
           \A j \in 1..i :
               AcceptsVariant(Commenter(comments[j]), PostAuthor(pa, comments[j]))
                   <=> Accepts(Commenter(comments[j]), PostAuthor(pa, comments[j]))
    /\ (script = "network_stats" /\ pc \in {"built", "stats"}) =>
           adjacency = reference
    /\ (script = "degree_distribution" /\ pc = "built") =>
           /\ out_degree = AdjOutDegrees(reference)
           /\ in_degree = AdjInDegrees(reference)

\* the variants agree with rigorous_analysis.build_network when no comment
\* and no post carries an empty author name
VariantsAgreeWithoutEmptyNames ==
    LET reference == build_network(posts, comments)
        pa == PostAuthors(posts)
        no_empty == \A j \in 1..Len(comments) :
                        /\ Commenter(comments[j]) # ""
                        /\ PostAuthor(pa, comments[j]) # ""
    IN
    no_empty =>
        /\ (script = "network_stats" /\ pc \in {"built", "stats"}) =>
               adjacency = reference
        /\ (script = "degree_distribution" /\ pc = "built") =>
               /\ out_degree = AdjOutDegrees(reference)
               /\ in_degree = AdjInDegrees(reference)

----------------------------------------------------------------------------
(* The resamples                                                           *)

\* C20: in every iteration of the bootstrap loop the resampled adjacency
\* has total weight |edges|, the total weight of the original, and each of
\* its entries is an entry of the original; so its connected pairs and its
\* mutual pairs are among the original's and it has no self-loop.
C20_ResampleWithinOriginal ==
    (pc \in {"resample", "returned", "summary", "TypeError", "done"}
        /\ Len(reciprocities) >= 1) =>
        /\ Len(boot_edges) = TotalWeight(adjacency)
        /\ TotalWeight(sample_adj) = Len(boot_edges)
        /\ Entries(sample_adj) \subseteq Entries(adjacency)
        /\ ConnectedPairs(sample_adj) \subseteq ConnectedPairs(adjacency)
        /\ MutualPairs(sample_adj) \subseteq MutualPairs(adjacency)
        /\ \A e \in Entries(sample_adj) : e[1] # e[2]

C20_Witness ==
    /\ pc = "resample"
    /\ Len(reciprocities) = 2
    /\ Len(boot_edges) = 3
    /\ MutualPairs(adjacency) # {}
    /\ MutualPairs(sample_adj) = {}
    /\ Cardinality(Entries(sample_adj)) = 2
    /\ Cardinality(Entries(adjacency)) = 3

----------------------------------------------------------------------------
(* The two reciprocity measures                                            *)

\* C21: on an adjacency without self-loops, when compute_dyadic_reciprocity
\* reports P connected pairs and M mutual pairs, compute_reciprocity counts
\* total = P + M directed edges and reciprocated = 2M and returns
\* 2M / (P + M); the two ratios are equal exactly when M = 0 or M = P, and
\* otherwise the edge reciprocity is strictly greater than the dyadic one.
C21_EdgeAndDyadicReciprocity ==
    ({"compute_dyadic_reciprocity", "compute_reciprocity"} \subseteq returned
        /\ NoSelfLoops(adjacency)) =>
        LET P == recip[2]
            M == recip[3]
        IN  /\ Cardinality(Entries(adjacency)) = P + M
            /\ Cardinality(ReciprocatedEntries(adjacency)) = 2 * M
            /\ edge_recip = IF P + M > 0 THEN Ratio(2 * M, P + M) ELSE Zero
            /\ (edge_recip = recip[1]) <=> (M = 0 \/ M = P)
            /\ ~ (M = 0 \/ M = P) => Less(recip[1], edge_recip)

C21_Witness ==
    /\ {"compute_dyadic_reciprocity", "compute_reciprocity"} \subseteq returned
    /\ NoSelfLoops(adjacency)
    /\ recip[2] = 2
    /\ recip[3] = 1
    /\ edge_recip = <<2, 3>>
    /\ recip[1] = <<1, 2>>

====
